---------------------------- MODULE Spec2Model ----------------------------
(***************************************************************************)
(* A model of the Mission Control orbit view: the grouping function, the   *)
(* orbit radius policy, the selection store, and the SolarSystem engine    *)
(* (reconciliation of the scene against the container feed, the focus /    *)
(* selection handlers, the debounced unfocus timer and the animation       *)
(* tick).                                                                  *)
(*                                                                         *)
(* Conventions.  A JavaScript Map is a sequence in insertion order.  A     *)
(* length is kept exact by scaling: radii are in 1/100000 of a pixel,      *)
(* body sizes in 1/10 of a pixel, a sprite's width is its base width       *)
(* times focusScale^scaleExp, and an angle is a sum start + turn + rad:    *)
(* start is the ring's random start angle, turn is in units of             *)
(* 2*pi/TurnUnits (the even spacing), rad in units of 1/2000 radian (the   *)
(* distance travelled).  Math.random() is not interpreted: a start angle   *)
(* is the draw it came from, <<n, key>> for the ring of key created by the *)
(* n-th snapshot, so that two draws are never taken to be equal.           *)
(***************************************************************************)
EXTENDS Integers, Sequences, FiniteSets, TLC

VARIABLES
    timers,             \* the timers of window.setTimeout: ids pending, the id in the ref
    query,              \* the status query in flight: promise, socket, timer, buffer
    adapter,            \* the Minecraft adapter: cache, clock, calls in flight
    systemStats,        \* App's systemStats state
    containers,         \* SolarSystem's containers prop (the latest snapshot)
    viewport,           \* min(app.screen.width, app.screen.height)
    groupOrbits,        \* groupOrbitsRef: Map<key, GroupOrbit>, insertion order
    focusedPlanetId,    \* focusedPlanetIdRef
    unfocusTimeoutRef,  \* unfocusTimeoutRef holds a timer id (TRUE) or null
    timerPending,       \* the timer of unfocusTimeoutRef has not fired yet
    selection,          \* selection store: selection
    hover,              \* selection store: hover
    overlayVisible,     \* HoverOverlay.visible
    orphans,            \* display objects left in a layer without a record
    ticks,              \* animation ticks so far (bounded)
    refreshes,          \* snapshots delivered so far (bounded)
    op,                 \* the last operation and what it observed
    fnIn,               \* argument of the pure function being applied
    fnOut               \* its result

vars ==
    << timers, query, adapter, systemStats, containers, viewport, groupOrbits, focusedPlanetId, unfocusTimeoutRef,
       timerPending, selection, hover, overlayVisible, orphans, ticks,
       refreshes, op, fnIn, fnOut >>

-----------------------------------------------------------------------------
(* Bounds of the model *)

MaxEntities == 2
MaxRefresh == 2
MaxTicks == 1
MaxListLen == 3
MaxGroups == 8
MaxViewport == 3
MaxKeyEntities == 3
MaxClock == 2400
ClockStep == 400
MaxCalls == 2
MaxQueries == 3
MaxTimers == 3

-----------------------------------------------------------------------------
(* Values *)

Ids == {"a", "b", "c"}
Keys == {"web", "db"}
GroupKeys == {"web", "db", "cache"}
States == {"running", "restarting", "paused", "exited", "created"}
NoId == "null"

\* ContainerStats, the fields the engine reads
Entity(id, group, state, cpu, mem) ==
    [id |-> id, group |-> group, state |-> state, cpu |-> cpu, mem |-> mem]

NoContainer == Entity(NoId, NoId, NoId, 0, 0)

NoGroup == [key |-> NoId, containers |-> << >>, dominantState |-> NoId]

-----------------------------------------------------------------------------
(* Sequences as arrays and insertion-ordered Maps *)

Range(s) == {s[i] : i \in 1..Len(s)}

\* Array.prototype.findIndex, 1-based, 0 when absent
IndexOf(s, Test(_)) ==
    IF \E i \in 1..Len(s) : Test(s[i])
    THEN CHOOSE i \in 1..Len(s) : Test(s[i]) /\ \A j \in 1..(i - 1) : ~Test(s[j])
    ELSE 0

-----------------------------------------------------------------------------
(* utils/grouping.ts *)

\* a variant that moves a key to the end whenever it is seen again
RECURSIVE GroupMapKeys_LastSeen(_, _)
GroupMapKeys_LastSeen(cs, n) ==
    IF n = 0 THEN << >>
    ELSE LET prev == GroupMapKeys_LastSeen(cs, n - 1)
         IN Append(SelectSeq(prev, LAMBDA k : k # cs[n].group), cs[n].group)

\* the keys of groupMap after the first n containers, in insertion order
RECURSIVE GroupMapKeys(_, _)
GroupMapKeys(cs, n) ==
    IF n = 0 THEN << >>
    ELSE LET prev == GroupMapKeys(cs, n - 1)
         IN IF \E i \in 1..Len(prev) : prev[i] = cs[n].group
            THEN prev
            ELSE Append(prev, cs[n].group)

\* a variant that takes the first member's state
getDominantState_NoPriority(cs) ==
    IF cs = << >> THEN "exited"
    ELSE IF cs[1].state \in {"running", "restarting", "paused"} THEN cs[1].state
    ELSE "exited"

getDominantState(cs) ==
    LET states == [i \in 1..Len(cs) |-> cs[i].state]
        some(st) == \E i \in 1..Len(states) : states[i] = st
    IN IF some("running") THEN "running"
       ELSE IF some("restarting") THEN "restarting"
       ELSE IF some("paused") THEN "paused"
       ELSE "exited"

groupContainers(cs) ==
    LET keys == GroupMapKeys(cs, Len(cs))
    IN [g \in 1..Len(keys) |->
          LET members == SelectSeq(cs, LAMBDA c : c.group = keys[g])
          IN [key |-> keys[g], containers |-> members,
              dominantState |-> getDominantState(members)]]

-----------------------------------------------------------------------------
(* SolarSystem.calculateOrbitRadius.  The result is in 1/100000 pixel for  *)
(* a viewport size in pixels; appRef.current is set in every caller that   *)
(* the model covers, so the fallback of 120 is not reached.                *)

OrbitMinFactor == 12000
OrbitStepFactor == 7500
OrbitMaxFactor == 46000
CompressionGroups == 6
CompressionPercent == 85

Min(x, y) == IF x <= y THEN x ELSE y

OrbitStep(totalGroups, viewportSize) ==
    LET STEP == viewportSize * OrbitStepFactor
    IN IF totalGroups > CompressionGroups
       THEN (STEP * CompressionPercent) \div 100
       ELSE STEP

\* a variant without the clamp to MAX_ORBIT
calculateOrbitRadius_NoCap(index, totalGroups, viewportSize) ==
    viewportSize * OrbitMinFactor + index * OrbitStep(totalGroups, viewportSize)

calculateOrbitRadius(index, totalGroups, viewportSize) ==
    LET BASE == viewportSize * OrbitMinFactor
        STEP == OrbitStep(totalGroups, viewportSize)
        MAX_ORBIT == viewportSize * OrbitMaxFactor
        radius == BASE + index * STEP
    IN Min(radius, MAX_ORBIT)

-----------------------------------------------------------------------------
(* state/selection.ts.  Every Selection and Hover value has all fields,    *)
(* the ones its kind does not carry hold the null values.                  *)

SelNone ==
    [kind |-> "none", id |-> NoId, container |-> NoContainer,
     persistent |-> FALSE, key |-> NoId, group |-> NoGroup]

SelPlanet(id, container, persistent) ==
    [kind |-> "planet", id |-> id, container |-> container,
     persistent |-> persistent, key |-> NoId, group |-> NoGroup]

SelGroup(key, group) ==
    [kind |-> "group", id |-> NoId, container |-> NoContainer,
     persistent |-> FALSE, key |-> key, group |-> group]

HoverNone == [planetId |-> NoId, container |-> NoContainer]

\* The mutators act on a record w holding the store's fields (and, in the
\* engine, the engine's refs); dirty records that set() was called, which
\* re-renders every subscribed component.
setSelection(w, sel) ==
    [w EXCEPT !.selection = sel, !.dirty = TRUE]

\* a variant that also resets the hover
selectPlanet_ClearsHover(w, id, container, persistent) ==
    [w EXCEPT !.selection = SelPlanet(id, container, persistent),
              !.hover = HoverNone, !.dirty = TRUE]

selectPlanet(w, id, container, persistent) ==
    [w EXCEPT !.selection = SelPlanet(id, container, persistent), !.dirty = TRUE]

selectGroup(w, key, group) ==
    [w EXCEPT !.selection = SelGroup(key, group), !.dirty = TRUE]

clearSelection(w) ==
    [w EXCEPT !.selection = SelNone, !.dirty = TRUE]

setHover(w, planetId, container) ==
    [w EXCEPT !.hover = [planetId |-> planetId, container |-> container],
              !.dirty = TRUE]

clearHover(w) ==
    [w EXCEPT !.hover = HoverNone, !.dirty = TRUE]

-----------------------------------------------------------------------------
(* SolarSystem: the scene records *)

\* an angle: start + turn * 2*pi/TurnUnits + rad / 2000
TurnUnits == 60
Angle(start, turn, rad) == [start |-> start, turn |-> turn, rad |-> rad]

\* the values Math.random() * 2 * pi takes in the n-th snapshot's reconcile
Draws(n) == [k \in Keys |-> <<n, k>>]

\* what a handleHover closure reads of the selection it captured
HoverClosure(sel) ==
    [kind |-> sel.kind, id |-> sel.id, persistent |-> sel.persistent]

\* a display object that is still a child of a layer although no record
\* owns it: "sprite" stands for a planet's sprite, glow and rimGlow,
\* "particles" for its six particles, "ring" for a ring's orbitLine,
\* orbitGlow, labelText and hitArea
Orphan(kind, id, layer, hoverSel, listenerContainer, listenerGroup) ==
    [kind |-> kind, id |-> id, layer |-> layer, hoverSel |-> hoverSel,
     listenerContainer |-> listenerContainer, listenerGroup |-> listenerGroup]

SpriteOrphan(planet) ==
    Orphan("sprite", planet.id, planet.layer, planet.hoverSel,
           planet.listenerContainer, NoGroup)

ParticleOrphans(planet) ==
    IF planet.particles > 0
    THEN {Orphan("particles", planet.id, "base", HoverClosure(SelNone),
                 NoContainer, NoGroup)}
    ELSE {}

RingOrphan(orbit) ==
    Orphan("ring", orbit.key, "base", HoverClosure(SelNone), NoContainer,
           orbit.listenerGroup)

\* the engine's refs and the store, as one record
World ==
    [orbits |-> groupOrbits, focused |-> focusedPlanetId,
     timeoutRef |-> unfocusTimeoutRef, timerPending |-> timerPending,
     selection |-> selection, hover |-> hover, overlay |-> overlayVisible,
     orphans |-> orphans, dirty |-> FALSE]

\* groupOrbitsRef.current.forEach(... planets.get(planetId) ...): the last
\* orbit holding the id wins; <<0, 0>> when no orbit holds it
PlanetLoc(orbits, planetId) ==
    LET locs == {loc \in UNION {{<<oi, pi>> : pi \in 1..Len(orbits[oi].planets)} :
                                    oi \in 1..Len(orbits)} :
                    orbits[loc[1]].planets[loc[2]].id = planetId}
    IN IF locs = {} THEN <<0, 0>>
       ELSE CHOOSE loc \in locs : \A other \in locs : other[1] <= loc[1]

HasPlanet(orbits, planetId) == PlanetLoc(orbits, planetId) # <<0, 0>>

PlanetAt(orbits, loc) == orbits[loc[1]].planets[loc[2]]

-----------------------------------------------------------------------------
(* SolarSystem: focus handlers *)

unfocusPlanet(w) ==
    IF w.focused = NoId THEN w
    ELSE LET planetId == w.focused
             loc == PlanetLoc(w.orbits, planetId)
             w1 == clearHover(clearSelection([w EXCEPT !.focused = NoId]))
         IN [w1 EXCEPT
               !.orbits = IF loc = <<0, 0>> THEN @
                          ELSE [@ EXCEPT ![loc[1]].planets[loc[2]] =
                                  [@ EXCEPT !.layer = "base",
                                            !.scaleExp = @ - 1]],
               !.overlay = FALSE]

\* if (unfocusTimeoutRef.current) { clearTimeout(...); ref = null }
ClearPendingUnfocus(w) ==
    IF w.timeoutRef
    THEN [w EXCEPT !.timeoutRef = FALSE, !.timerPending = FALSE]
    ELSE w

\* sel is the selection the closure captured when the listener was made
handleHover(w, planetId, sel) ==
    LET w1 == IF sel.kind = "planet" /\ sel.persistent /\ sel.id # planetId
              THEN unfocusPlanet(w)
              ELSE w
        w2 == ClearPendingUnfocus(w1)
        loc == PlanetLoc(w2.orbits, planetId)
    IN IF sel.kind = "group" THEN w1
       ELSE IF w2.focused = planetId THEN w2
       ELSE IF loc = <<0, 0>> THEN w2
       ELSE LET planet == PlanetAt(w2.orbits, loc)
                w3 == setHover([w2 EXCEPT !.focused = planetId],
                               planetId, planet.container)
            IN [w3 EXCEPT
                  !.orbits[loc[1]].planets[loc[2]] =
                      [@ EXCEPT !.layer = "focus", !.scaleExp = @ + 1],
                  !.overlay = TRUE]

\* a variant that leaves the body focused before where it is
handleClick_NoUnfocus(w, planetId, container) ==
    LET w1 == ClearPendingUnfocus(w)
        loc == PlanetLoc(w1.orbits, planetId)
    IN IF loc = <<0, 0>> THEN w1
       ELSE LET w3 == selectPlanet([w1 EXCEPT !.focused = planetId],
                                   planetId, container, TRUE)
                planet == PlanetAt(w3.orbits, loc)
            IN [w3 EXCEPT
                  !.orbits[loc[1]].planets[loc[2]] =
                      IF planet.layer = "base"
                      THEN [@ EXCEPT !.layer = "focus", !.scaleExp = @ + 1]
                      ELSE @,
                  !.overlay = TRUE]

handleClick(w, planetId, container) ==
    LET w1 == ClearPendingUnfocus(w)
        loc == PlanetLoc(w1.orbits, planetId)
    IN IF loc = <<0, 0>> THEN w1
       ELSE LET w2 == IF w1.focused # NoId /\ w1.focused # planetId
                      THEN unfocusPlanet(w1)
                      ELSE w1
                w3 == selectPlanet([w2 EXCEPT !.focused = planetId],
                                   planetId, container, TRUE)
                planet == PlanetAt(w3.orbits, loc)
            IN [w3 EXCEPT
                  !.orbits[loc[1]].planets[loc[2]] =
                      IF planet.layer = "base"
                      THEN [@ EXCEPT !.layer = "focus", !.scaleExp = @ + 1]
                      ELSE @,
                  !.overlay = TRUE]

\* clearTimeout of the previous timer, then setTimeout
maybeUnfocus(w) ==
    [w EXCEPT !.timeoutRef = TRUE, !.timerPending = TRUE]

\* a variant that trusts the selection of the time the timer was set
UnfocusTimeout_Unchecked(w) ==
    unfocusPlanet([w EXCEPT !.timerPending = FALSE])

\* a variant whose callback does nothing
UnfocusTimeout_Idle(w) ==
    [w EXCEPT !.timerPending = FALSE]

\* a variant that aborts for a pinned body only
UnfocusTimeout_PinOnly(w) ==
    LET w1 == [w EXCEPT !.timerPending = FALSE]
    IN IF w1.selection.kind = "planet" /\ w1.selection.persistent THEN w1
       ELSE unfocusPlanet(w1)

\* the setTimeout callback: reads the store at fire time; the ref keeps the
\* fired timer's id
UnfocusTimeout(w) ==
    LET w1 == [w EXCEPT !.timerPending = FALSE]
        currentSelection == w1.selection
    IN IF currentSelection.kind = "planet" /\ currentSelection.persistent THEN w1
       ELSE IF currentSelection.kind = "group" THEN w1
       ELSE unfocusPlanet(w1)

\* the timers of the page behind unfocusTimeoutRef: the id the ref holds (0
\* for null), the ids whose callbacks have yet to run, the next id of
\* window.setTimeout
NoTimers == [ref |-> 0, pending |-> {}, next |-> 1]

\* if (unfocusTimeoutRef.current) { clearTimeout(...); ref = null }
ClearPendingTimer(t) ==
    IF t.ref # 0 THEN [t EXCEPT !.pending = @ \ {t.ref}, !.ref = 0] ELSE t

\* a variant of maybeUnfocus that sets a timer without clearing the last one
SetUnfocusTimer_Kept(t) ==
    [t EXCEPT !.ref = t.next, !.pending = @ \cup {t.next}, !.next = @ + 1]

\* maybeUnfocus: clearTimeout of the id in the ref, then a new timer
SetUnfocusTimer(t) ==
    [t EXCEPT !.ref = t.next,
              !.pending = (IF t.ref # 0 THEN @ \ {t.ref} ELSE @) \cup {t.next},
              !.next = @ + 1]

\* the callback of timer id runs; the ref keeps what it holds
TimerRan(t, id) ==
    [t EXCEPT !.pending = @ \ {id}]

-----------------------------------------------------------------------------
(* SolarSystem: the reconcile effect *)

MinRadius == 12
MaxRadius == 18
LargeMaxRadius == 12
LargeMemoryPercent == 70
ParticleCpuPercent == 50
ParticleCount == 6
ExitedLineAlpha == 30
ExitedSelectedLineAlpha == 60

\* 10 * Math.sqrt(memoryPercent / 100); the model's memory percents are squares
SqrtTenths(memoryPercent) ==
    CHOOSE k \in 0..10 : k * k = memoryPercent

\* size, in 1/10 pixel
PlanetSize(memoryPercent) ==
    LET baseSize == MinRadius
        maxSize == IF memoryPercent > LargeMemoryPercent
                   THEN LargeMaxRadius ELSE MaxRadius
    IN 10 * baseSize + SqrtTenths(memoryPercent) * (maxSize - baseSize)

\* 0.05 + (cpuPercent / 100) * 0.45 rad/s, in 1/2000 rad/s
OrbitSpeed(cpuPercent) == 100 + 9 * cpuPercent

\* a container whose snapshot entry carries no cpuPercent
NoLoad == -1

\* const cpuPercent = container.cpuPercent || 0
CpuPercent(container) ==
    IF container.cpu = NoLoad THEN 0 ELSE container.cpu

shouldShowParticles(container) ==
    CpuPercent(container) > ParticleCpuPercent \/ container.state = "restarting"

\* app.stage.removeChild(child) for a child of baseLayer or focusLayer: the
\* stage is not its parent, so the child stays where it is, without a record
StageRemoveChild(orphanSet, objects) == orphanSet \cup objects

\* drawOrbitRing: of what it draws, the model keeps orbitLine.alpha
drawOrbitRing(orbit, sel) ==
    LET isSelected == sel.kind = "group" /\ sel.key = orbit.group.key
    IN IF orbit.group.dominantState = "running" THEN orbit
       ELSE IF orbit.group.dominantState = "exited"
       THEN [orbit EXCEPT !.lineAlpha = IF isSelected THEN ExitedSelectedLineAlpha
                                        ELSE ExitedLineAlpha]
       ELSE orbit

\* a variant that keeps the rings of the groups that are gone
RemoveGroupOrbits_Kept(w, groups) == w

\* a variant that discards every ring and rebuilds the scene
RemoveGroupOrbits_All(w, groups) ==
    [w EXCEPT !.orbits = << >>]

\* "Remove group orbits that no longer exist"
RemoveGroupOrbits(w, groups) ==
    LET current(key) == \E g \in 1..Len(groups) : groups[g].key = key
        gone == {oi \in 1..Len(w.orbits) : ~current(w.orbits[oi].key)}
        left == UNION {
                  {RingOrphan(w.orbits[oi])}
                  \cup UNION {{SpriteOrphan(w.orbits[oi].planets[pi])}
                                \cup ParticleOrphans(w.orbits[oi].planets[pi]) :
                              pi \in 1..Len(w.orbits[oi].planets)} :
                  oi \in gone}
    IN [w EXCEPT !.orphans = StageRemoveChild(@, left),
                 !.orbits = SelectSeq(@, LAMBDA o : current(o.key))]

\* "Remove planets that no longer exist in this group", one id after the
\* other in the Map's order
RECURSIVE RemovePlanets(_, _, _)
RemovePlanets(w, oi, goneIds) ==
    IF goneIds = << >> THEN w
    ELSE LET id == Head(goneIds)
             w1 == IF w.focused = id THEN unfocusPlanet(w) ELSE w
             pi == IndexOf(w1.orbits[oi].planets, LAMBDA p : p.id = id)
             planet == w1.orbits[oi].planets[pi]
             w2 == [w1 EXCEPT
                      !.orphans = StageRemoveChild(@, {SpriteOrphan(planet)}
                                                      \cup ParticleOrphans(planet)),
                      !.orbits[oi].planets = SelectSeq(@, LAMBDA p : p.id # id)]
         IN RemovePlanets(w2, oi, Tail(goneIds))

\* a planet created for container, the containerIndex-th (0-based) of count
NewPlanet(container, containerIndex, count, startAngle, sel) ==
    LET spacing == TurnUnits \div (IF count > 1 THEN count ELSE 1)
    IN [id |-> container.id, container |-> container,
        angle |-> Angle(startAngle, containerIndex * spacing, 0),
        orbitSpeed |-> 200, particles |-> 0, layer |-> "base",
        size |-> 0, scaleExp |-> 0, alpha |-> 100,
        hoverSel |-> HoverClosure(sel), listenerContainer |-> container]

\* "Update planet properties"
UpdatePlanet(planet, container, focused) ==
    [planet EXCEPT
        !.container = container,
        !.size = PlanetSize(container.mem),
        !.scaleExp = IF focused = container.id THEN 1 ELSE 0,
        !.orbitSpeed = OrbitSpeed(CpuPercent(container)),
        !.particles = IF shouldShowParticles(container) /\ @ = 0 THEN ParticleCount
                      ELSE IF ~shouldShowParticles(container) /\ @ > 0 THEN 0
                      ELSE @]

\* a variant that rebuilds the bodies of the group in the order of the list
UpdatePlanets_ByPosition(w, oi, group, sel) ==
    LET cs == group.containers
    IN [w EXCEPT !.orbits[oi].planets =
          [ci \in 1..Len(cs) |->
              UpdatePlanet(NewPlanet(cs[ci], ci - 1, Len(cs),
                                     w.orbits[oi].randomStartAngle, sel),
                           cs[ci], w.focused)]]

\* "Add or update planets in this group"
UpdatePlanets(w, oi, group, sel) ==
    LET orbit == w.orbits[oi]
        cs == group.containers
        old == orbit.planets
        has(id) == \E pi \in 1..Len(old) : old[pi].id = id
        containerOf(id) == cs[IndexOf(cs, LAMBDA c : c.id = id)]
        kept == [pi \in 1..Len(old) |->
                    UpdatePlanet(old[pi], containerOf(old[pi].id), w.focused)]
        newIdx == SelectSeq([ci \in 1..Len(cs) |-> ci], LAMBDA ci : ~has(cs[ci].id))
        made == [n \in 1..Len(newIdx) |->
                    UpdatePlanet(NewPlanet(cs[newIdx[n]], newIdx[n] - 1, Len(cs),
                                           orbit.randomStartAngle, sel),
                                 cs[newIdx[n]], w.focused)]
        dropped == UNION {IF ~shouldShowParticles(containerOf(old[pi].id))
                          THEN ParticleOrphans(old[pi]) ELSE {} :
                          pi \in 1..Len(old)}
    IN [w EXCEPT !.orbits[oi].planets = kept \o made,
                 !.orphans = StageRemoveChild(@, dropped)]

\* "Create new group orbit"; startAngle is Math.random() * 2 * pi
NewOrbit(group, groupIndex, totalGroups, viewportSize, startAngle) ==
    [key |-> group.key, group |-> group,
     orbitRadius |-> calculateOrbitRadius(groupIndex, totalGroups, viewportSize),
     randomStartAngle |-> startAngle, planets |-> << >>, lineAlpha |-> 100,
     listenerGroup |-> group]

\* the body of groups.forEach((group, groupIndex) => ...), from group gi on
RECURSIVE ReconcileGroups(_, _, _, _, _, _)
ReconcileGroups(w, groups, gi, viewportSize, sel, rnd) ==
    IF gi > Len(groups) THEN w
    ELSE LET group == groups[gi]
             found == IndexOf(w.orbits, LAMBDA o : o.key = group.key)
             w1 == IF found = 0
                   THEN [w EXCEPT !.orbits =
                           Append(@, NewOrbit(group, gi - 1, Len(groups),
                                              viewportSize, rnd[group.key]))]
                   ELSE w
             oi == IF found = 0 THEN Len(w1.orbits) ELSE found
             w2 == [w1 EXCEPT !.orbits[oi] =
                       drawOrbitRing([@ EXCEPT !.group = group], sel)]
             isCurrent(id) == \E ci \in 1..Len(group.containers) :
                                 group.containers[ci].id = id
             planetIds == [pi \in 1..Len(w2.orbits[oi].planets) |->
                              w2.orbits[oi].planets[pi].id]
             w3 == RemovePlanets(w2, oi, SelectSeq(planetIds, LAMBDA id : ~isCurrent(id)))
             w4 == UpdatePlanets(w3, oi, group, sel)
         IN ReconcileGroups(w4, groups, gi + 1, viewportSize, sel, rnd)

\* the effect on [containers, calculateOrbitRadius, selectGroup]; sel is the
\* selection of the render the effect belongs to
Reconcile(w, cs, viewportSize, sel, rnd) ==
    LET groups == groupContainers(cs)
    IN ReconcileGroups(RemoveGroupOrbits(w, groups), groups, 1, viewportSize, sel, rnd)

-----------------------------------------------------------------------------
(* SolarSystem: the selection effect, a render, the other handlers *)

HoverDimAlpha == 40
SelectionDimAlpha == 60

\* "Update visual effects when selection changes"
SelectionEffect(w, sel) ==
    LET targetAlpha(orbit, planetId) ==
            IF sel.kind = "planet" /\ sel.persistent
            THEN (IF sel.id = planetId THEN 100 ELSE SelectionDimAlpha)
            ELSE IF sel.kind = "group"
            THEN (IF sel.key = orbit.group.key THEN 100 ELSE SelectionDimAlpha)
            ELSE IF w.focused # NoId
            THEN (IF w.focused = planetId THEN 100 ELSE HoverDimAlpha)
            ELSE 100
        redrawn(orbit) ==
            [drawOrbitRing(orbit, sel) EXCEPT
                !.planets = [pi \in 1..Len(orbit.planets) |->
                               [orbit.planets[pi] EXCEPT
                                  !.alpha = targetAlpha(orbit, orbit.planets[pi].id)]]]
    IN [w EXCEPT !.orbits = [oi \in 1..Len(w.orbits) |-> redrawn(w.orbits[oi])]]

\* One render of SolarSystem and its effects.  calculateOrbitRadius and
\* drawOrbitRing are new functions in every render, so the reconcile effect
\* and the selection effect both run after every render, with the selection
\* that render read from the store.
RenderEffects(w, cs, viewportSize, rnd) ==
    SelectionEffect(
        Reconcile([w EXCEPT !.dirty = FALSE], cs, viewportSize, w.selection, rnd),
        w.selection)

\* A store update made by an effect renders once more.
Render(w, cs, viewportSize, rnd) ==
    LET pass == RenderEffects(w, cs, viewportSize, rnd)
    IN IF pass.dirty THEN RenderEffects(pass, cs, viewportSize, rnd) ELSE pass

\* after a handler: the store's subscribers render if set() was called
Settle(w, cs, viewportSize) ==
    IF w.dirty THEN Render(w, cs, viewportSize, Draws(0)) ELSE w

\* allPlanetIds of handleKeyDown
AllPlanetIds(orbits) ==
    LET RECURSIVE Flat(_)
        Flat(oi) ==
            IF oi > Len(orbits) THEN << >>
            ELSE [pi \in 1..Len(orbits[oi].planets) |-> orbits[oi].planets[pi].id]
                 \o Flat(oi + 1)
    IN Flat(1)

\* a variant whose arrows stop at the ends of the list
handleKeyDown_NoWrap(w, key, sel) ==
    LET allPlanetIds == AllPlanetIds(w.orbits)
        n == Len(allPlanetIds)
        indexOf(id) == IndexOf(allPlanetIds, LAMBDA x : x = id) - 1
        clickAt(index) ==
            LET id == allPlanetIds[index + 1]
            IN handleClick(w, id, PlanetAt(w.orbits, PlanetLoc(w.orbits, id)).container)
    IN IF n = 0 THEN w
       ELSE IF key = "Escape"
       THEN (IF sel.kind # "none" THEN unfocusPlanet(w) ELSE w)
       ELSE IF key \in {"ArrowRight", "ArrowDown"}
       THEN LET currentIndex == IF sel.kind = "planet" THEN indexOf(sel.id) ELSE -1
            IN clickAt(Min(currentIndex + 1, n - 1))
       ELSE IF key \in {"ArrowLeft", "ArrowUp"}
       THEN LET currentIndex == IF sel.kind = "planet" THEN indexOf(sel.id) ELSE 0
            IN clickAt(IF currentIndex <= 0 THEN 0 ELSE currentIndex - 1)
       ELSE IF key = "Enter"
       THEN (IF sel.kind = "planet" /\ ~sel.persistent /\ w.focused # NoId
             THEN selectPlanet(w, sel.id, sel.container, TRUE)
             ELSE w)
       ELSE w

\* sel is the selection of the render that registered the listener
handleKeyDown(w, key, sel) ==
    LET allPlanetIds == AllPlanetIds(w.orbits)
        n == Len(allPlanetIds)
        indexOf(id) == IndexOf(allPlanetIds, LAMBDA x : x = id) - 1
        clickAt(index) ==
            LET id == allPlanetIds[index + 1]
            IN handleClick(w, id, PlanetAt(w.orbits, PlanetLoc(w.orbits, id)).container)
    IN IF n = 0 THEN w
       ELSE IF key = "Escape"
       THEN (IF sel.kind # "none" THEN unfocusPlanet(w) ELSE w)
       ELSE IF key \in {"ArrowRight", "ArrowDown"}
       THEN LET currentIndex == IF sel.kind = "planet" THEN indexOf(sel.id) ELSE -1
            IN clickAt((currentIndex + 1) % n)
       ELSE IF key \in {"ArrowLeft", "ArrowUp"}
       THEN LET currentIndex == IF sel.kind = "planet" THEN indexOf(sel.id) ELSE 0
            IN clickAt(IF currentIndex <= 0 THEN n - 1 ELSE currentIndex - 1)
       ELSE IF key = "Enter"
       THEN (IF sel.kind = "planet" /\ ~sel.persistent /\ w.focused # NoId
             THEN selectPlanet(w, sel.id, sel.container, TRUE)
             ELSE w)
       ELSE w

\* app.ticker: delta in seconds; flicker is 0.7 + sin(now / 200) * 0.3, in percent
Ticker(w, delta, flicker) ==
    LET moved(planet) ==
            [planet EXCEPT
                !.angle.rad = @ + planet.orbitSpeed * delta,
                !.alpha = IF planet.container.state = "restarting" THEN flicker ELSE 100]
        focusedHere == \E oi \in 1..Len(w.orbits) :
                          \E pi \in 1..Len(w.orbits[oi].planets) :
                             w.orbits[oi].planets[pi].container.id = w.focused
    IN [w EXCEPT
          !.orbits = [oi \in 1..Len(w.orbits) |->
                        [w.orbits[oi] EXCEPT
                           !.planets = [pi \in 1..Len(w.orbits[oi].planets) |->
                                          moved(w.orbits[oi].planets[pi])]]],
          !.overlay = IF focusedHere THEN TRUE ELSE @]

\* handleResize, registered by the mount effect: its drawOrbitRing is the
\* first render's, whose selection is the initial one
handleResize(w, viewportSize) ==
    [w EXCEPT
       !.orbits = [oi \in 1..Len(w.orbits) |->
                     drawOrbitRing(
                        [w.orbits[oi] EXCEPT
                           !.orbitRadius =
                              calculateOrbitRadius(oi - 1, Len(w.orbits), viewportSize)],
                        SelNone)]]

-----------------------------------------------------------------------------
(* The engine as a state machine *)

InitialViewport == 600
ResizedViewport == 400
Viewports == {InitialViewport, ResizedViewport}
FlickerAlphas == {40, 100}
Deltas == {1}
KeysPressed == {"Escape", "ArrowRight", "ArrowLeft", "Enter"}

\* the telemetry a snapshot may carry for a container
Profiles ==
    { [state |-> "running", cpu |-> 80, mem |-> 49],
      [state |-> "exited", cpu |-> 0, mem |-> 9] }

Running == CHOOSE pr \in Profiles : pr.state = "running"
Exited == CHOOSE pr \in Profiles : pr.state = "exited"

\* the containers a snapshot may list: a runs or has exited in web, b runs
\* in web or has exited in db
FeedEntities ==
    { Entity("a", "web", Running.state, Running.cpu, Running.mem),
      Entity("a", "web", Exited.state, Exited.cpu, Exited.mem),
      Entity("b", "web", Running.state, Running.cpu, Running.mem),
      Entity("b", "db", Exited.state, Exited.cpu, Exited.mem) }

\* the snapshots: lists of containers with distinct ids
Feeds ==
    {cs \in UNION {[1..k -> FeedEntities] : k \in 0..MaxEntities} :
        \A i, j \in 1..Len(cs) : i # j => cs[i].id # cs[j].id}

\* The last operation, for the operations the properties below are about:
\* a pointer-down on a sprite records whether a body record existed for its
\* id, whether an unfocus timer was pending and whether another body was the
\* focused one; an arrow key records the id selected before it; every other
\* operation is recorded as "other".
Op(name, id, existed, hadTimer, hadOther) ==
    [name |-> name, id |-> id, existed |-> existed, hadTimer |-> hadTimer,
     hadOther |-> hadOther]

OtherOp == Op("other", NoId, FALSE, FALSE, FALSE)

\* the interactive sprites on screen: those of the planets and the orphans
Sprites ==
    {[id |-> p.id, hoverSel |-> p.hoverSel, listenerContainer |-> p.listenerContainer] :
        p \in UNION {Range(groupOrbits[oi].planets) : oi \in 1..Len(groupOrbits)}}
    \cup {[id |-> o.id, hoverSel |-> o.hoverSel,
           listenerContainer |-> o.listenerContainer] :
            o \in {x \in orphans : x.kind = "sprite"}}

\* the ring hit areas on screen, each with the group its listener captured
HitAreas ==
    {[key |-> groupOrbits[oi].key, listenerGroup |-> groupOrbits[oi].listenerGroup] :
        oi \in 1..Len(groupOrbits)}
    \cup {[key |-> o.id, listenerGroup |-> o.listenerGroup] :
            o \in {x \in orphans : x.kind = "ring"}}

\* adapters/minecraft.ts.  Times are in milliseconds.
CACHE_TTL_MS == 1000
QueryTimeoutMs == 800
NoConnection == [host |-> "null", port |-> 0]
NoData == [service |-> "null", playersOnline |-> 0]

\* resolveConnection for a container without host labels and network
\* addresses: the first name, or null
resolveConnection(containerInfo) ==
    IF containerInfo.Names # << >>
    THEN [host |-> containerInfo.Names[1], port |-> 25565]
    ELSE NoConnection

\* the module's cache Map is empty, no call of enrich is in flight, no query
\* has been sent
AdapterInit ==
    [now |-> 0, cache |-> << >>, calls |-> << >>, queries |-> << >>,
     returned |-> "none"]

\* cache.get(containerId): the index of the entry, 0 if there is none
CacheIndex(cache, containerId) ==
    IndexOf(cache, LAMBDA entry : entry.id = containerId)

\* cache.set(containerId, { data, timestamp: Date.now() })
CacheSet(cache, containerId, data, now) ==
    LET entry == [id |-> containerId, data |-> data, timestamp |-> now]
        at == CacheIndex(cache, containerId)
    IN IF at = 0 THEN Append(cache, entry) ELSE [cache EXCEPT ![at] = entry]

\* enrich up to its await: the cached value, null for a container that is
\* not running or has no connection, or a query sent to the server
enrichCall(ad, containerInfo) ==
    LET containerId == containerInfo.Id
        at == CacheIndex(ad.cache, containerId)
        connection == resolveConnection(containerInfo)
    IN IF at # 0 /\ ad.now - ad.cache[at].timestamp < CACHE_TTL_MS
       THEN [ad EXCEPT !.returned = "cached"]
       ELSE IF containerInfo.State # "running" \/ connection = NoConnection
       THEN [ad EXCEPT !.cache = CacheSet(@, containerId, NoData, ad.now),
                       !.returned = "null"]
       ELSE [ad EXCEPT !.queries = Append(@, [id |-> containerId, at |-> ad.now]),
                       !.calls = Append(@, [id |-> containerId, sent |-> ad.now]),
                       !.returned = "pending"]

\* enrich after its await: the query of call ci has resolved with response
enrichResume(ad, ci, response) ==
    LET call == ad.calls[ci]
        result == IF response.players
                  THEN [service |-> "minecraft", playersOnline |-> response.online]
                  ELSE NoData
        others == SelectSeq([i \in 1..Len(ad.calls) |-> i], LAMBDA i : i # ci)
    IN [ad EXCEPT !.cache = CacheSet(@, call.id, result, ad.now),
                  !.calls = [k \in 1..Len(others) |-> ad.calls[others[k]]],
                  !.returned = IF response.players THEN "data" ELSE "null"]

\* queryMinecraftStatus: the promise, the socket, the timer and the buffer
\* of one status query.  NoQuery is the module with no query in flight.
NoQuery ==
    [promise |-> "none", resolved |-> FALSE, destroyed |-> FALSE,
     timer |-> "none", connected |-> FALSE, buffer |-> 0]

\* the executor of the promise: a new socket, an empty buffer, the timer set
queryMinecraftStatus ==
    [promise |-> "pending", resolved |-> FALSE, destroyed |-> FALSE,
     timer |-> "set", connected |-> FALSE, buffer |-> 0]

\* cleanup: destroys the socket once
cleanup(q) ==
    IF ~q.resolved THEN [q EXCEPT !.resolved = TRUE, !.destroyed = TRUE] ELSE q

\* clearTimeout(timer)
clearTimeout(q) ==
    IF q.timer = "set" THEN [q EXCEPT !.timer = "cleared"] ELSE q

\* resolve(value): a promise settles once
resolve(q, value) ==
    IF q.promise = "pending" THEN [q EXCEPT !.promise = value] ELSE q

\* a variant of the timer callback that resolves nothing
onTimeout_Idle(q) ==
    [q EXCEPT !.timer = "fired"]

\* the callback of setTimeout
onTimeout(q) ==
    resolve(cleanup([q EXCEPT !.timer = "fired"]), "null")

\* socket.on('error')
onError(q) ==
    resolve(clearTimeout(cleanup(q)), "null")

\* what reading the buffer comes to: an exception (not enough data, a VarInt
\* of more than five bytes, text that is not JSON), a packet id other than
\* 0x00, a status with players, or other JSON
ParseOutcomes == {"throws", "packetId", "status", "other"}

\* socket.on('data') for a chunk of so many bytes, the buffer then reading as
\* parsed
onData(q, bytes, parsed) ==
    LET b == [q EXCEPT !.buffer = @ + bytes]
    IN IF parsed = "packetId" THEN resolve(clearTimeout(cleanup(b)), "null")
       ELSE IF parsed # "throws" THEN resolve(clearTimeout(cleanup(b)), parsed)
       ELSE IF b.buffer > 4096 THEN resolve(clearTimeout(cleanup(b)), "null")
       ELSE b

\* the callback of socket.connect: the two writes, or their exception
onConnect(q, writeThrows) ==
    IF writeThrows
    THEN resolve(clearTimeout(cleanup(q)), "null")
    ELSE [q EXCEPT !.connected = TRUE]

\* the response enrich receives from a settled promise
ResponseOf(promise) ==
    IF promise = "status"
    THEN [players |-> TRUE, online |-> 2]
    ELSE [players |-> FALSE, online |-> 0]

\* App's systemStats: null, a SystemStats object, or another JSON object
NullStats == [kind |-> "null", containers |-> << >>]
Stats(cs) == [kind |-> "stats", containers |-> cs]
ErrorBody == [kind |-> "error", containers |-> << >>]

\* containers={systemStats?.containers || []}
ContainersProp(stats) ==
    IF stats.kind = "stats" THEN stats.containers ELSE << >>

\* what fetch('/api/stats') and response.json() come to: an exception, or
\* the JSON body of the response whatever its status
NetworkError == [throws |-> TRUE, status |-> 0, body |-> NullStats]
JsonResponse(body) ==
    [throws |-> FALSE, status |-> IF body.kind = "stats" THEN 200 ELSE 500,
     body |-> body]

\* the failures of the request: no response, or GET /api/stats answering
\* res.status(500).json({ error: ... })
FailedOutcomes == {NetworkError, JsonResponse(ErrorBody)}

\* fetchStats: systemStats after the request came to this outcome
fetchStats(stats, outcome) ==
    IF outcome.throws THEN stats ELSE outcome.body

Commit(w) ==
    /\ groupOrbits' = w.orbits
    /\ focusedPlanetId' = w.focused
    /\ unfocusTimeoutRef' = w.timeoutRef
    /\ timerPending' = w.timerPending
    /\ selection' = w.selection
    /\ hover' = w.hover
    /\ overlayVisible' = w.overlay
    /\ orphans' = w.orphans

EngineInit ==
    /\ timers = NoTimers
    /\ query = NoQuery
    /\ adapter = AdapterInit
    /\ systemStats = NullStats
    /\ containers = << >>
    /\ viewport = InitialViewport
    /\ groupOrbits = << >>
    /\ focusedPlanetId = NoId
    /\ unfocusTimeoutRef = FALSE
    /\ timerPending = FALSE
    /\ selection = SelNone
    /\ hover = HoverNone
    /\ overlayVisible = FALSE
    /\ orphans = {}
    /\ ticks = 0
    /\ refreshes = 0

\* the state after SolarSystem has mounted with no snapshot yet
Init ==
    /\ EngineInit
    /\ op = OtherOp
    /\ fnIn = 0
    /\ fnOut = 0

\* App passes a new snapshot's containers, one of feeds: SolarSystem renders
RefreshWith(feeds) ==
    /\ refreshes < MaxRefresh
    /\ \E cs \in feeds :
          /\ systemStats' = fetchStats(systemStats, JsonResponse(Stats(cs)))
          /\ containers' = ContainersProp(systemStats')
          /\ Commit(Render(World, containers', viewport, Draws(refreshes + 1)))
    /\ refreshes' = refreshes + 1
    /\ op' = OtherOp
    /\ UNCHANGED << timers, query, adapter, viewport, ticks, fnIn, fnOut >>

Refresh == RefreshWith(Feeds)

PointerOver ==
    /\ \E s \in Sprites :
          /\ Commit(Settle(handleHover(World, s.id, s.hoverSel), containers, viewport))
          /\ op' = OtherOp
    /\ UNCHANGED << timers, query, adapter, systemStats, containers, viewport, ticks, refreshes, fnIn, fnOut >>

PointerOut ==
    /\ Sprites # {}
    /\ Commit(Settle(maybeUnfocus(World), containers, viewport))
    /\ op' = OtherOp
    /\ UNCHANGED << timers, query, adapter, systemStats, containers, viewport, ticks, refreshes, fnIn, fnOut >>

PointerDown ==
    /\ \E s \in Sprites :
          /\ Commit(Settle(handleClick(World, s.id, s.listenerContainer),
                           containers, viewport))
          /\ op' = Op("pointerdown", s.id, HasPlanet(groupOrbits, s.id), timerPending,
                   focusedPlanetId \notin {NoId, s.id})
    /\ UNCHANGED << timers, query, adapter, systemStats, containers, viewport, ticks, refreshes, fnIn, fnOut >>

RingPointerDown ==
    /\ \E h \in HitAreas :
          /\ Commit(Settle(selectGroup(World, h.key, h.listenerGroup),
                           containers, viewport))
          /\ op' = OtherOp
    /\ UNCHANGED << timers, query, adapter, systemStats, containers, viewport, ticks, refreshes, fnIn, fnOut >>

\* the interaction state Hovering: a body is focused by pointer-enter and
\* nothing is selected
Hovering ==
    /\ selection.kind = "none"
    /\ focusedPlanetId # NoId
    /\ hover.planetId = focusedPlanetId

\* What a key press records: an arrow pressed with bodies on screen the id
\* that was selected before it, Enter the focused body and whether the
\* state was Hovering, Escape nothing but its name.
KeyOp(key) ==
    IF key \in {"ArrowRight", "ArrowLeft"}
    THEN (IF groupOrbits # << >> THEN Op(key, selection.id, TRUE, FALSE, FALSE)
          ELSE OtherOp)
    ELSE IF key = "Enter" THEN Op(key, focusedPlanetId, Hovering, FALSE, FALSE)
    ELSE Op(key, NoId, FALSE, FALSE, FALSE)

KeyPress(key) ==
    /\ Commit(Settle(handleKeyDown(World, key, selection), containers, viewport))
    /\ op' = OtherOp
    /\ UNCHANGED << timers, query, adapter, systemStats, containers, viewport, ticks, refreshes, fnIn, fnOut >>

KeyDown == \E key \in KeysPressed : KeyPress(key)

\* SidePanel's clear-btn, rendered while something is selected
ClearButton ==
    /\ selection.kind # "none"
    /\ Commit(Settle(clearSelection(World), containers, viewport))
    /\ op' = OtherOp
    /\ UNCHANGED << timers, query, adapter, systemStats, containers, viewport, ticks, refreshes, fnIn, fnOut >>

UnfocusTimerFires ==
    /\ timerPending
    /\ Commit(Settle(UnfocusTimeout(World), containers, viewport))
    /\ op' = OtherOp
    /\ UNCHANGED << timers, query, adapter, systemStats, containers, viewport, ticks, refreshes, fnIn, fnOut >>

Tick ==
    /\ ticks < MaxTicks
    /\ \E delta \in Deltas, flicker \in FlickerAlphas :
          Commit(Ticker(World, delta, flicker))
    /\ ticks' = ticks + 1
    /\ op' = OtherOp
    /\ UNCHANGED << timers, query, adapter, systemStats, containers, viewport, refreshes, fnIn, fnOut >>

Resize ==
    /\ \E v \in Viewports \ {viewport} :
          /\ viewport' = v
          /\ Commit(handleResize(World, v))
    /\ op' = OtherOp
    /\ UNCHANGED << timers, query, adapter, systemStats, containers, ticks, refreshes, fnIn, fnOut >>

Next ==
    \/ Refresh
    \/ PointerOver
    \/ PointerOut
    \/ PointerDown
    \/ RingPointerDown
    \/ KeyDown
    \/ ClearButton
    \/ UnfocusTimerFires

\* the engine under snapshots, pointer and key input and the unfocus timer
Spec == Init /\ [][Next]_vars

\* A stats request fails.  setSystemStats renders App and, with a new
\* containers array, SolarSystem; a caught exception renders nothing.
FetchStatsFails ==
    /\ \E outcome \in FailedOutcomes :
          /\ systemStats' = fetchStats(systemStats, outcome)
          /\ containers' = ContainersProp(systemStats')
          /\ IF outcome.throws
             THEN Commit(World)
             ELSE Commit(Render(World, containers', viewport, Draws(refreshes + 1)))
    /\ op' = OtherOp
    /\ UNCHANGED << timers, query, adapter, viewport, ticks, refreshes, fnIn, fnOut >>

NextApp ==
    \/ Refresh
    \/ FetchStatsFails
    \/ PointerDown
    \/ RingPointerDown

\* App and the engine under good snapshots and failed requests
SpecApp == Init /\ [][NextApp]_vars

\* a key press, recorded whatever the key
KeyPressSeen(key) ==
    /\ Commit(Settle(handleKeyDown(World, key, selection), containers, viewport))
    /\ op' = KeyOp(key)
    /\ UNCHANGED << timers, query, adapter, systemStats, containers, viewport, ticks, refreshes, fnIn, fnOut >>

KeyDownSeen == \E key \in KeysPressed : KeyPressSeen(key)

\* the containers of the snapshot shown while keys are pressed: three
\* bodies, of which a and c share ring web
KeyEntities ==
    { Entity("a", "web", Running.state, Running.cpu, Running.mem),
      Entity("b", "db", Exited.state, Exited.cpu, Exited.mem),
      Entity("c", "web", Running.state, Running.cpu, Running.mem) }

KeyFeeds ==
    {cs \in UNION {[1..k -> KeyEntities] : k \in 0..MaxKeyEntities} :
        \A i, j \in 1..Len(cs) : i # j => cs[i].id # cs[j].id}

FirstRefresh == refreshes = 0 /\ RefreshWith(KeyFeeds)

NextKeys ==
    \/ FirstRefresh
    \/ PointerOver
    \/ PointerOut
    \/ PointerDown
    \/ RingPointerDown
    \/ KeyDownSeen
    \/ ClearButton
    \/ UnfocusTimerFires

\* the engine showing one snapshot, under pointer and key input, every key
\* press recorded
SpecKeys == Init /\ [][NextKeys]_vars

\* the pointer enters a body, as long as it has not left one
EnterBody == ~unfocusTimeoutRef /\ PointerOver

\* the pointer leaves the hovered body; no pointer or key input follows
LeaveHovered == Hovering /\ ~unfocusTimeoutRef /\ PointerOut

NextDebounce ==
    \/ Refresh
    \/ Tick
    \/ EnterBody
    \/ LeaveHovered
    \/ UnfocusTimerFires

\* a timer of setTimeout stops being pending: in NextDebounce, where nothing
\* clears a timer once the pointer has left, by UnfocusTimerFires only
TimerRunsOut == timerPending /\ timerPending' = FALSE

\* a hover and a pointer-leave followed by snapshots and ticks only; the
\* browser runs the callback of a timer that stays set
SpecDebounce ==
    Init /\ [][NextDebounce]_vars /\ WF_timerPending(TimerRunsOut)

\* pointer and timer events with the timers of the page told apart
TimersOver ==
    /\ \E s \in Sprites :
          /\ Commit(Settle(handleHover(World, s.id, s.hoverSel), containers, viewport))
          /\ timers' = IF s.hoverSel.kind = "group"
                       THEN timers ELSE ClearPendingTimer(timers)
    /\ op' = OtherOp
    /\ UNCHANGED << query, adapter, systemStats, containers, viewport, ticks,
                    refreshes, fnIn, fnOut >>

TimersOut ==
    /\ Sprites # {}
    /\ timers.next <= MaxTimers
    /\ Commit(Settle(maybeUnfocus(World), containers, viewport))
    /\ timers' = SetUnfocusTimer(timers)
    /\ op' = OtherOp
    /\ UNCHANGED << query, adapter, systemStats, containers, viewport, ticks,
                    refreshes, fnIn, fnOut >>

TimersDown ==
    /\ \E s \in Sprites :
          Commit(Settle(handleClick(World, s.id, s.listenerContainer),
                        containers, viewport))
    /\ timers' = ClearPendingTimer(timers)
    /\ op' = OtherOp
    /\ UNCHANGED << query, adapter, systemStats, containers, viewport, ticks,
                    refreshes, fnIn, fnOut >>

TimersFire ==
    /\ \E id \in timers.pending :
          timers' = TimerRan(timers, id)
    /\ Commit(Settle(UnfocusTimeout(World), containers, viewport))
    /\ op' = OtherOp
    /\ UNCHANGED << query, adapter, systemStats, containers, viewport, ticks,
                    refreshes, fnIn, fnOut >>

NextTimers ==
    \/ FirstRefresh
    \/ TimersOver
    \/ TimersOut
    \/ TimersDown
    \/ RingPointerDown
    \/ TimersFire

\* one snapshot, pointer input on its bodies and rings, and the timers
SpecTimers == Init /\ [][NextTimers]_vars

NextTicks ==
    \/ FirstRefresh
    \/ PointerOver
    \/ PointerDown
    \/ RingPointerDown
    \/ Tick

\* one snapshot, pointer input on its bodies and rings, and the ticker
SpecTicks == Init /\ [][NextTicks]_vars

\* the containers of snapshots that list up to three bodies in any order:
\* a and c in web, b in web or in db
OrderEntities ==
    KeyEntities \cup {Entity("b", "web", Running.state, Running.cpu, Running.mem)}

OrderFeeds ==
    {cs \in UNION {[1..k -> OrderEntities] : k \in 0..MaxKeyEntities} :
        \A i, j \in 1..Len(cs) : i # j => cs[i].id # cs[j].id}

OrderRefresh == RefreshWith(OrderFeeds)

NextOrder ==
    \/ OrderRefresh
    \/ Tick

\* the scene under snapshots that reorder, add and remove containers while
\* the bodies move
SpecOrder == Init /\ [][NextOrder]_vars

\* the scene under snapshots, ticks and window resizes, without input
\* the loads and states a snapshot may report for the one container of the
\* particle scenes
ParticleLoads == {NoLoad, 0, 50, 51, 80}
ParticleStates == {"running", "restarting", "exited"}
ParticleFeeds ==
    { << Entity("a", "web", st, cpu, Running.mem) >> :
         st \in ParticleStates, cpu \in ParticleLoads }

LoadRefresh == RefreshWith(ParticleFeeds)

NextParticles ==
    \/ LoadRefresh
    \/ Tick

\* one body under snapshots that change its load and state
SpecParticles == Init /\ [][NextParticles]_vars

NextScene ==
    \/ Refresh
    \/ Tick
    \/ Resize

SpecScene == Init /\ [][NextScene]_vars

-----------------------------------------------------------------------------
(* utils/grouping.ts applied to bounded container lists *)

\* the orders in which k containers with distinct ids can be listed
IdOrders(k) == {ids \in [1..k -> Ids] : \A i, j \in 1..k : i # j => ids[i] # ids[j]}

\* groupContainers is applied to a list of distinct ids, of any groups and states
InitGrouping ==
    /\ EngineInit
    /\ op = OtherOp
    /\ \E k \in 0..MaxListLen : \E ids \in IdOrders(k) :
          \E gs \in [1..k -> GroupKeys], sts \in [1..k -> States] :
             fnIn = [i \in 1..k |-> Entity(ids[i], gs[i], sts[i], 0, 0)]
    /\ fnOut = [done |-> FALSE, groups |-> << >>]

ApplyGrouping ==
    /\ ~fnOut.done
    /\ fnOut' = [done |-> TRUE, groups |-> groupContainers(fnIn)]
    /\ UNCHANGED << timers, query, adapter, systemStats, containers, viewport, groupOrbits, focusedPlanetId,
                    unfocusTimeoutRef, timerPending, selection, hover,
                    overlayVisible, orphans, ticks, refreshes, op, fnIn >>

NextGrouping == ApplyGrouping

SpecGrouping == InitGrouping /\ [][NextGrouping]_vars

-----------------------------------------------------------------------------
(* calculateOrbitRadius applied to bounded layouts *)

ViewportSizes == {100 * k : k \in 1..MaxViewport}

\* a viewport size and two group counts, whose ring radii are tabulated
RadiusInputs ==
    [V : ViewportSizes, N : 1..MaxGroups, M : 1..MaxGroups]

RadiusTable(totalGroups, viewportSize) ==
    [i \in 0..(totalGroups - 1) |->
        calculateOrbitRadius(i, totalGroups, viewportSize)]

InitRadius ==
    /\ EngineInit
    /\ op = OtherOp
    /\ fnIn \in RadiusInputs
    /\ fnOut = [done |-> FALSE, radii |-> << >>, other |-> << >>]

ApplyRadius ==
    /\ ~fnOut.done
    /\ fnOut' = [done |-> TRUE,
                 radii |-> RadiusTable(fnIn.N, fnIn.V),
                 other |-> RadiusTable(fnIn.M, fnIn.V)]
    /\ UNCHANGED << timers, query, adapter, systemStats, containers, viewport, groupOrbits, focusedPlanetId,
                    unfocusTimeoutRef, timerPending, selection, hover,
                    overlayVisible, orphans, ticks, refreshes, op, fnIn >>

NextRadius == ApplyRadius

SpecRadius == InitRadius /\ [][NextRadius]_vars

-----------------------------------------------------------------------------
(* The Minecraft adapter under overlapping stats collections *)

\* the containers docker lists: m with a name, running or not; n unnamed
AdapterContainers ==
    { [Id |-> "m", State |-> "running", Names |-> << "mc" >>],
      [Id |-> "m", State |-> "exited", Names |-> << "mc" >>],
      [Id |-> "n", State |-> "running", Names |-> << >>] }

\* what queryMinecraftStatus resolves with: a status, or null on a timeout,
\* a socket error or an unreadable answer
QueryResponses ==
    { [players |-> TRUE, online |-> 2], [players |-> FALSE, online |-> 0] }

\* getContainerStats, of the refresh interval, of a new WebSocket connection
\* or of GET /api/stats, reaches enrich for a container; nothing makes it
\* wait for a collection that is still running
Enrich ==
    /\ Len(adapter.calls) < MaxCalls
    /\ Len(adapter.queries) < MaxQueries
    /\ \E containerInfo \in AdapterContainers :
          adapter' = enrichCall(adapter, containerInfo)
    /\ UNCHANGED << timers, query, systemStats, containers, viewport, groupOrbits, focusedPlanetId,
                    unfocusTimeoutRef, timerPending, selection, hover,
                    overlayVisible, orphans, ticks, refreshes, op, fnIn, fnOut >>

\* a query resolves and the call that awaited it stores the result
QueryResolves ==
    /\ \E ci \in 1..Len(adapter.calls), response \in QueryResponses :
          adapter' = enrichResume(adapter, ci, response)
    /\ UNCHANGED << timers, query, systemStats, containers, viewport, groupOrbits, focusedPlanetId,
                    unfocusTimeoutRef, timerPending, selection, hover,
                    overlayVisible, orphans, ticks, refreshes, op, fnIn, fnOut >>

\* time passes; a query resolves before its timeout has passed
ClockAdvances ==
    /\ adapter.now + ClockStep <= MaxClock
    /\ \A ci \in 1..Len(adapter.calls) :
          adapter.now + ClockStep - adapter.calls[ci].sent <= QueryTimeoutMs
    /\ adapter' = [adapter EXCEPT !.now = @ + ClockStep]
    /\ UNCHANGED << timers, query, systemStats, containers, viewport, groupOrbits, focusedPlanetId,
                    unfocusTimeoutRef, timerPending, selection, hover,
                    overlayVisible, orphans, ticks, refreshes, op, fnIn, fnOut >>

NextAdapter ==
    \/ Enrich
    \/ QueryResolves
    \/ ClockAdvances

SpecAdapter == Init /\ [][NextAdapter]_vars

-----------------------------------------------------------------------------
(* One status query of the Minecraft adapter, from enrich to its return *)

\* the sizes of the chunks a server sends
ChunkBytes == {512, 1024, 2048}

QueryRest ==
    << systemStats, containers, viewport, groupOrbits, focusedPlanetId,
       unfocusTimeoutRef, timerPending, selection, hover, overlayVisible,
       orphans, ticks, refreshes, op, fnIn, fnOut >>

\* enrich is called while no call is in flight; a call that gets past the
\* cache and the connection starts a query
EnrichQueries ==
    /\ Len(adapter.calls) = 0
    /\ Len(adapter.queries) < MaxQueries
    /\ \E containerInfo \in AdapterContainers :
          /\ adapter' = enrichCall(adapter, containerInfo)
          /\ query' = IF adapter'.returned = "pending"
                      THEN queryMinecraftStatus ELSE query
    /\ UNCHANGED << timers, QueryRest >>

\* the connection is made and the connect callback runs
SocketConnects ==
    /\ query.promise # "none" /\ ~query.destroyed /\ ~query.connected
    /\ \E writeThrows \in BOOLEAN : query' = onConnect(query, writeThrows)
    /\ UNCHANGED << timers, adapter, QueryRest >>

\* the socket reports an error
SocketError ==
    /\ query.promise # "none" /\ ~query.destroyed
    /\ query' = onError(query)
    /\ UNCHANGED << timers, adapter, QueryRest >>

\* the socket delivers a chunk
SocketData ==
    /\ query.promise # "none" /\ ~query.destroyed
    /\ \E bytes \in ChunkBytes, parsed \in ParseOutcomes :
          query' = onData(query, bytes, parsed)
    /\ UNCHANGED << timers, adapter, QueryRest >>

\* the timer of the query fires
TimerResolves ==
    /\ query.timer = "set"
    /\ query' = onTimeout(query)

QueryTimeout ==
    /\ TimerResolves
    /\ UNCHANGED << timers, adapter, QueryRest >>

\* the await of enrich resumes with the value of the settled promise
AwaitResumes ==
    /\ Len(adapter.calls) = 1
    /\ query.promise \notin {"none", "pending"}
    /\ adapter' = enrichResume(adapter, 1, ResponseOf(query.promise))
    /\ query' = NoQuery
    /\ UNCHANGED << timers, QueryRest >>

\* time passes: not past the moment a set timer fires, and not while a
\* settled promise has its continuation queued
QueryClock ==
    /\ adapter.now + ClockStep <= MaxClock
    /\ query.promise \in {"none", "pending"}
    /\ query.timer = "set" =>
          adapter.now + ClockStep - adapter.calls[1].sent <= QueryTimeoutMs
    /\ adapter' = [adapter EXCEPT !.now = @ + ClockStep]
    /\ UNCHANGED << timers, query, QueryRest >>

NextQuery ==
    \/ EnrichQueries
    \/ SocketConnects
    \/ SocketError
    \/ SocketData
    \/ QueryTimeout
    \/ AwaitResumes
    \/ QueryClock

\* a timer that is set fires
SpecQuery ==
    Init /\ [][NextQuery]_vars /\ WF_query(TimerResolves)

-----------------------------------------------------------------------------
(* The planet size of the reconcile effect, tabulated for two containers *)

\* the memory percents whose square root is a whole number of tenths
MemoryPercents == {k * k : k \in 0..10}

\* the memory percents of two containers of one snapshot
SizeInputs == [a : MemoryPercents, b : MemoryPercents]

InitSize ==
    /\ EngineInit
    /\ op = OtherOp
    /\ fnIn \in SizeInputs
    /\ fnOut = [done |-> FALSE, a |-> 0, b |-> 0]

ApplySize ==
    /\ ~fnOut.done
    /\ fnOut' = [done |-> TRUE, a |-> PlanetSize(fnIn.a), b |-> PlanetSize(fnIn.b)]
    /\ UNCHANGED << timers, query, adapter, systemStats, containers, viewport, groupOrbits, focusedPlanetId,
                    unfocusTimeoutRef, timerPending, selection, hover,
                    overlayVisible, orphans, ticks, refreshes, op, fnIn >>

NextSize == ApplySize

SpecSize == InitSize /\ [][NextSize]_vars

-----------------------------------------------------------------------------
(* state/selection.ts driven by arbitrary callers *)

StoreContainers == FeedEntities \cup {NoContainer}
StoreIds == {c.id : c \in FeedEntities}
StoreGroups == UNION {Range(groupContainers(cs)) : cs \in Feeds}
StoreSelections ==
    {SelNone}
    \cup {SelPlanet(id, c, p) : id \in StoreIds, c \in FeedEntities, p \in BOOLEAN}
    \cup {SelGroup(g.key, g) : g \in StoreGroups}

\* the last mutator called and the values last written to each field
StoreOp(name, sel, hov) == [name |-> name, lastSel |-> sel, lastHover |-> hov]

InitStore ==
    /\ EngineInit
    /\ op = StoreOp("create", SelNone, HoverNone)
    /\ fnIn = 0
    /\ fnOut = 0

StoreCommit(w) ==
    /\ selection' = w.selection
    /\ hover' = w.hover
    /\ UNCHANGED << timers, query, adapter, systemStats, containers, viewport, groupOrbits, focusedPlanetId,
                    unfocusTimeoutRef, timerPending, overlayVisible, orphans,
                    ticks, refreshes, fnIn, fnOut >>

StoreSetSelection ==
    \E sel \in StoreSelections :
        /\ StoreCommit(setSelection(World, sel))
        /\ op' = StoreOp("setSelection", sel, op.lastHover)

StoreSelectPlanet ==
    \E id \in StoreIds, c \in FeedEntities, p \in BOOLEAN :
        /\ StoreCommit(selectPlanet(World, id, c, p))
        /\ op' = StoreOp("selectPlanet", SelPlanet(id, c, p), op.lastHover)

StoreSelectGroup ==
    \E g \in StoreGroups :
        /\ StoreCommit(selectGroup(World, g.key, g))
        /\ op' = StoreOp("selectGroup", SelGroup(g.key, g), op.lastHover)

StoreClearSelection ==
    /\ StoreCommit(clearSelection(World))
    /\ op' = StoreOp("clearSelection", SelNone, op.lastHover)

StoreSetHover ==
    \E id \in StoreIds \cup {NoId}, c \in StoreContainers :
        /\ StoreCommit(setHover(World, id, c))
        /\ op' = StoreOp("setHover", op.lastSel, [planetId |-> id, container |-> c])

StoreClearHover ==
    /\ StoreCommit(clearHover(World))
    /\ op' = StoreOp("clearHover", op.lastSel, HoverNone)

NextStore ==
    \/ StoreSetSelection
    \/ StoreSelectPlanet
    \/ StoreSelectGroup
    \/ StoreClearSelection
    \/ StoreSetHover
    \/ StoreClearHover

SpecStore == InitStore /\ [][NextStore]_vars

-----------------------------------------------------------------------------
(* Properties of the pure functions *)

\* the position of the container with this id in a list, 0 when absent
PositionOf(cs, id) == IndexOf(cs, LAMBDA c : c.id = id)

\* the position of the first container of this group in a list
FirstOfGroup(cs, key) == IndexOf(cs, LAMBDA c : c.group = key)

\* C7: groupContainers partitions a list of containers: every container is a
\* member of exactly one group, the group of its own key; no group is empty;
\* the groups are in the order in which their keys first occur in the list;
\* the members of a group are in the order they have in the list.
GroupingPartitions ==
    fnOut.done =>
        LET gs == fnOut.groups
        IN /\ \A i \in 1..Len(fnIn) :
                 \E g \in 1..Len(gs) :
                    /\ gs[g].key = fnIn[i].group
                    /\ \E m \in 1..Len(gs[g].containers) : gs[g].containers[m] = fnIn[i]
                    /\ \A h \in 1..Len(gs) :
                          (\E m \in 1..Len(gs[h].containers) :
                              gs[h].containers[m].id = fnIn[i].id) => h = g
           /\ \A g \in 1..Len(gs) :
                 /\ Len(gs[g].containers) >= 1
                 /\ \A m \in 1..Len(gs[g].containers) :
                       /\ gs[g].containers[m].group = gs[g].key
                       /\ PositionOf(fnIn, gs[g].containers[m].id) > 0
                       /\ fnIn[PositionOf(fnIn, gs[g].containers[m].id)]
                             = gs[g].containers[m]
                 /\ \A m, n \in 1..Len(gs[g].containers) :
                       m < n => PositionOf(fnIn, gs[g].containers[m].id)
                                  < PositionOf(fnIn, gs[g].containers[n].id)
           /\ \A g, h \in 1..Len(gs) :
                 g < h => FirstOfGroup(fnIn, gs[g].key) < FirstOfGroup(fnIn, gs[h].key)

\* a list in which a key comes back after another key was first seen
GroupingInterleaved ==
    /\ fnOut.done
    /\ Len(fnIn) = 3
    /\ fnIn[1].group = fnIn[3].group
    /\ fnIn[2].group # fnIn[1].group
    /\ Len(fnOut.groups) = 2

\* the states of the members of a group
MemberStates(group) == {group.containers[m].state : m \in 1..Len(group.containers)}

\* C8: the dominant state of a group is running when a member is running,
\* otherwise restarting when a member is restarting, otherwise paused when a
\* member is paused, otherwise exited, whatever the order of the members.
DominantByPriority ==
    fnOut.done =>
        \A g \in 1..Len(fnOut.groups) :
            LET group == fnOut.groups[g]
                sts == MemberStates(group)
            IN /\ ("running" \in sts) => group.dominantState = "running"
               /\ ("running" \notin sts /\ "restarting" \in sts)
                     => group.dominantState = "restarting"
               /\ (sts \cap {"running", "restarting"} = {} /\ "paused" \in sts)
                     => group.dominantState = "paused"
               /\ (sts \cap {"running", "restarting", "paused"} = {})
                     => group.dominantState = "exited"

\* a group whose first member has exited, with a paused and a running one after it
DominantMixed ==
    /\ fnOut.done
    /\ \E g \in 1..Len(fnOut.groups) :
          LET members == fnOut.groups[g].containers
          IN /\ Len(members) = 3
             /\ members[1].state = "exited"
             /\ members[2].state = "paused"
             /\ members[3].state = "running"
             /\ fnOut.groups[g].dominantState = "running"

\* MAX_ORBIT and BASE for the tabulated viewport
RadiusCap == fnIn.V * OrbitMaxFactor
RadiusBase == fnIn.V * OrbitMinFactor

\* the radii never decrease with the index, never exceed 0.46 of the
\* viewport size, and the innermost is 0.12 of the viewport size
RadiusMonotoneCapped ==
    /\ \A i \in 0..(fnIn.N - 1) : fnOut.radii[i] <= RadiusCap
    /\ \A i \in 0..(fnIn.N - 2) : fnOut.radii[i] <= fnOut.radii[i + 1]
    /\ fnOut.radii[0] = RadiusBase

\* C5 as stated: besides RadiusMonotoneCapped, the spacing between every two
\* consecutive rings of a layout of more than 6 groups is 0.85 times the
\* spacing between the same two rings of a layout of at most 6 groups.
RadiusSpacingEverywhere ==
    fnOut.done =>
        /\ RadiusMonotoneCapped
        /\ (fnIn.N > CompressionGroups /\ fnIn.M <= CompressionGroups) =>
              \A i \in 0..(fnIn.M - 2) :
                 (fnOut.radii[i + 1] - fnOut.radii[i]) * 100
                    = CompressionPercent * (fnOut.other[i + 1] - fnOut.other[i])

\* C5: besides RadiusMonotoneCapped, the spacing between two consecutive
\* rings of a layout of more than 6 groups is 0.85 times the spacing between
\* the same two rings of a layout of at most 6 groups wherever the outer of
\* the two lies below the cap in the layout of at most 6 groups; between two
\* rings at the cap the spacing is 0.
RadiusSpacingBelowCap ==
    fnOut.done =>
        /\ RadiusMonotoneCapped
        /\ (fnIn.N > CompressionGroups /\ fnIn.M <= CompressionGroups) =>
              \A i \in 0..(fnIn.M - 2) :
                 fnOut.other[i + 1] < RadiusCap =>
                    (fnOut.radii[i + 1] - fnOut.radii[i]) * 100
                       = CompressionPercent * (fnOut.other[i + 1] - fnOut.other[i])
        /\ \A i \in 0..(fnIn.N - 2) :
              fnOut.radii[i] = RadiusCap => fnOut.radii[i + 1] = RadiusCap

\* a compressed layout whose outermost ring is at the cap, tabulated next to
\* an uncompressed layout with rings below the cap
RadiusCompressedAtCap ==
    /\ fnOut.done
    /\ fnIn.N > CompressionGroups
    /\ fnIn.M <= CompressionGroups
    /\ fnIn.M >= 3
    /\ fnOut.radii[fnIn.N - 1] = RadiusCap
    /\ fnOut.radii[1] < RadiusCap
    /\ fnOut.other[1] < RadiusCap

\* C9: the selection and the hover are independent fields: the selection is
\* the value last written by setSelection, selectPlanet, selectGroup or
\* clearSelection, the hover is the value last written by setHover or
\* clearHover, and no mutator of one field changes the other.
StoreFieldsIndependent ==
    /\ selection = op.lastSel
    /\ hover = op.lastHover

\* a selection written while a hover was set, the hover still there
StoreSelectedWhileHovering ==
    /\ op.name \in {"setSelection", "selectPlanet", "selectGroup", "clearSelection"}
    /\ op.lastHover # HoverNone
    /\ hover = op.lastHover
    /\ selection.kind = "planet"
    /\ selection.id # hover.planetId

-----------------------------------------------------------------------------
(* Properties of the engine *)

\* the body records, as << ring index, body index >>
PlanetLocs(orbits) ==
    UNION {{<<oi, pi>> : pi \in 1..Len(orbits[oi].planets)} : oi \in 1..Len(orbits)}

\* the bodies whose sprite, glow and rim glow are children of the focus layer
FocusLayerBodies(orbits) ==
    {loc \in PlanetLocs(orbits) : PlanetAt(orbits, loc).layer = "focus"}

Pinned(sel) == sel.kind = "planet" /\ sel.persistent

\* C1: at most one body has its display objects in the focus layer.
FocusExclusive ==
    Cardinality(FocusLayerBodies(groupOrbits)) <= 1

\* the angle of every body that has a record before and after a step is the same
SurvivorsKeepAngle ==
    \A id \in AllPlanetIds(groupOrbits) \cap AllPlanetIds(groupOrbits') :
        PlanetAt(groupOrbits', PlanetLoc(groupOrbits', id)).angle
            = PlanetAt(groupOrbits, PlanetLoc(groupOrbits, id)).angle

\* a snapshot arrives that does not list the pinned body
RefreshOmitsPinned ==
    /\ refreshes' = refreshes + 1
    /\ Pinned(selection)
    /\ HasPlanet(groupOrbits, selection.id)
    /\ \A i \in 1..Len(containers') : containers'[i].id # selection.id

\* C2: a refresh that omits the pinned body leaves the selection none and no
\* record for that body, and every surviving body keeps its angle, whether
\* the body's ring survives the refresh or disappears with it.
PinnedRemovalClears ==
    [][RefreshOmitsPinned =>
          /\ selection'.kind = "none"
          /\ ~HasPlanet(groupOrbits', selection.id)
          /\ SurvivorsKeepAngle]_vars

\* the unfocus timer fires: it was pending, is no more, and was not cancelled
TimerFired == timerPending /\ ~timerPending' /\ unfocusTimeoutRef'

\* C3: a pointer-down on a body while the debounced unfocus is pending
\* cancels the timer and pins the body, focused, and a timer that fires while
\* a body is pinned changes neither the selection nor the focus.
PinSurvivesDebounce ==
    [][/\ (op'.name = "pointerdown" /\ op'.existed /\ op'.hadTimer) =>
             /\ ~timerPending'
             /\ Pinned(selection')
             /\ selection'.id = op'.id
             /\ focusedPlanetId' = op'.id
             /\ PlanetLoc(groupOrbits', op'.id) \in FocusLayerBodies(groupOrbits')
       /\ (TimerFired /\ Pinned(selection)) =>
             /\ selection' = selection
             /\ focusedPlanetId' = focusedPlanetId
             /\ groupOrbits' = groupOrbits
             /\ overlayVisible' = overlayVisible]_vars

\* a body pinned by a pointer-down that found the unfocus timer pending and
\* another body focused
PinnedDuringDebounce ==
    /\ op.name = "pointerdown"
    /\ op.existed
    /\ op.hadTimer
    /\ op.hadOther
    /\ Pinned(selection)
    /\ ~timerPending

\* what the idempotence is about: the rings with radius and start angle, and
\* their bodies with angle and particle set
SceneView(orbits) ==
    [oi \in 1..Len(orbits) |->
        [key |-> orbits[oi].key,
         orbitRadius |-> orbits[oi].orbitRadius,
         randomStartAngle |-> orbits[oi].randomStartAngle,
         planets |-> [pi \in 1..Len(orbits[oi].planets) |->
                        [id |-> orbits[oi].planets[pi].id,
                         angle |-> orbits[oi].planets[pi].angle,
                         particles |-> orbits[oi].planets[pi].particles]]]]

\* C4: reconciling the scene again with the list it was last reconciled with
\* creates and destroys no ring and no body and changes no angle, radius,
\* start angle or particle set.
ReconcileIdempotent ==
    LET again == Reconcile(World, containers, viewport, selection,
                           Draws(refreshes + 1))
    IN /\ SceneView(again.orbits) = SceneView(groupOrbits)
       /\ again.orphans = orphans

\* a scene of two rings, a body with particles in it, rendered again with
\* the same snapshot after a pointer-down changed the selection
ReconciledAgain ==
    /\ refreshes = 2
    /\ op.name = "pointerdown"
    /\ op.existed
    /\ Len(groupOrbits) = 2
    /\ \E loc \in PlanetLocs(groupOrbits) : PlanetAt(groupOrbits, loc).particles > 0

\* C6: every ring's radius is calculateOrbitRadius of its index among the
\* groups of the last snapshot and of the number of those groups.
RingRadiiMatchPolicy ==
    LET groups == groupContainers(containers)
    IN \A oi \in 1..Len(groupOrbits) :
          LET gi == IndexOf(groups, LAMBDA g : g.key = groupOrbits[oi].key)
          IN gi > 0 =>
               groupOrbits[oi].orbitRadius
                  = calculateOrbitRadius(gi - 1, Len(groups), viewport)

\* C10: a pointer-down on a body that has a record makes the selection that
\* body with persistent = true and makes it the engine's focused body, and
\* the body the engine had focused before, if another, is back in the base
\* layer.
PointerDownPins ==
    [][(op'.name = "pointerdown" /\ op'.existed) =>
          /\ selection'.kind = "planet"
          /\ selection'.id = op'.id
          /\ selection'.persistent
          /\ focusedPlanetId' = op'.id
          /\ HasPlanet(groupOrbits', op'.id)
          /\ (focusedPlanetId \notin {NoId, op'.id}
                 /\ HasPlanet(groupOrbits, focusedPlanetId)) =>
                PlanetLoc(groupOrbits', focusedPlanetId)
                   \notin FocusLayerBodies(groupOrbits')]_vars

\* a body pinned by a pointer-down while another body was pinned
PinnedOverAnother ==
    /\ op.name = "pointerdown"
    /\ op.existed
    /\ op.hadOther
    /\ ~op.hadTimer
    /\ Pinned(selection)
    /\ selection.id = op.id
    /\ focusedPlanetId = op.id

-----------------------------------------------------------------------------
(* Properties of the engine: ring clicks, keys, the clear control *)

\* no body is focused: the engine names none, none is in the focus layer or
\* scaled, and the overlay is hidden
NothingFocused(focused, orbits, overlay) ==
    /\ focused = NoId
    /\ FocusLayerBodies(orbits) = {}
    /\ \A loc \in PlanetLocs(orbits) : PlanetAt(orbits, loc).scaleExp = 0
    /\ ~overlay

\* C11: a pointer-down on a ring's hit area makes the selection that group
\* and leaves no body focused.
RingClickSupersedesFocus ==
    [][RingPointerDown =>
          /\ selection'.kind = "group"
          /\ NothingFocused(focusedPlanetId', groupOrbits', overlayVisible')]_vars


\* C12: after Escape the selection is none and the hover is none, whatever
\* the selection and the focus were before.
EscapeReturnsToIdle ==
    op.name = "Escape" => (selection.kind = "none" /\ hover = HoverNone)


\* C13: the clear control pressed while a body is pinned leaves the selection
\* none, the engine's focused-body id empty, the body in the base layer at
\* its unscaled size, and the overlay hidden.
ClearControlRestores ==
    [][(ClearButton /\ Pinned(selection) /\ focusedPlanetId = selection.id
           /\ HasPlanet(groupOrbits, selection.id)) =>
          /\ selection'.kind = "none"
          /\ focusedPlanetId' = NoId
          /\ HasPlanet(groupOrbits', selection.id)
          /\ PlanetAt(groupOrbits', PlanetLoc(groupOrbits', selection.id)).layer = "base"
          /\ PlanetAt(groupOrbits', PlanetLoc(groupOrbits', selection.id)).scaleExp = 0
          /\ ~overlayVisible']_vars


\* C14: after Enter pressed while Hovering, the selection is the body that
\* was focused, with persistent = true, and that body is still the focused one.
EnterPinsHovered ==
    (op.name = "Enter" /\ op.existed) =>
        /\ Pinned(selection)
        /\ selection.id = op.id
        /\ focusedPlanetId = op.id


\* the position of a body in the ordered list of bodies, 0 when absent
NavPosition(orbits, id) == IndexOf(AllPlanetIds(orbits), LAMBDA x : x = id)

\* the body an arrow press is to reach from position p of a list of n bodies
NavTarget(orbits, key, p) ==
    LET ids == AllPlanetIds(orbits)
        n == Len(ids)
    IN IF key = "ArrowRight" THEN ids[(p % n) + 1] ELSE ids[((p + n - 2) % n) + 1]

\* C15: an arrow press made while a body of the list is pinned leaves the
\* list as it is and pins, persistent and as the engine's focused body, the
\* next body of the list for ArrowRight and the previous one for ArrowLeft,
\* the list taken as a cycle: from the last body forward to the first, from
\* the first backward to the last.  Hence n forward presses visit every body
\* once and return, and a backward press undoes a forward press.
ArrowsCycle ==
    [][(op'.name \in {"ArrowRight", "ArrowLeft"} /\ Pinned(selection)
           /\ NavPosition(groupOrbits, selection.id) > 0) =>
          /\ AllPlanetIds(groupOrbits') = AllPlanetIds(groupOrbits)
          /\ Pinned(selection')
          /\ selection'.id = NavTarget(groupOrbits, op'.name,
                                       NavPosition(groupOrbits, selection.id))
          /\ focusedPlanetId' = selection'.id]_vars

\* ArrowRight pressed with the last of three bodies pinned: the first is pinned
ArrowWrapped ==
    /\ op.name = "ArrowRight"
    /\ Len(AllPlanetIds(groupOrbits)) = 3
    /\ Len(groupOrbits) = 2
    /\ op.id = AllPlanetIds(groupOrbits)[3]
    /\ Pinned(selection)
    /\ selection.id = AllPlanetIds(groupOrbits)[1]


\* C16: while a body that has a record is pinned, a pointer-enter or
\* pointer-leave on any body and a firing of the unfocus timer leave the
\* selection as it is.
PinSurvivesPointerMoves ==
    [][(Pinned(selection) /\ HasPlanet(groupOrbits, selection.id)
           /\ (PointerOver \/ PointerOut \/ UnfocusTimerFires)) =>
          selection' = selection]_vars


\* C17: a failed stats request, by a network error or by the server's error
\* response, leaves the snapshot shown to the scene and the rings and bodies
\* of the scene as they are.
FailedFetchKeepsSnapshot ==
    [][FetchStatsFails =>
          /\ containers' = containers
          /\ SceneView(groupOrbits') = SceneView(groupOrbits)]_vars


\* C18: the rings are the distinct group keys of the latest snapshot, one
\* ring each, and the body records of a ring are the ids of its group in
\* that snapshot: no record for an id the snapshot does not list, and one
\* record, in one ring, for every entity it lists.
RecordsMatchSnapshot ==
    LET idx == 1..Len(containers)
        ringKeys == {groupOrbits[oi].key : oi \in 1..Len(groupOrbits)}
        allIds == AllPlanetIds(groupOrbits)
    IN /\ ringKeys = {containers[i].group : i \in idx}
       /\ Cardinality(ringKeys) = Len(groupOrbits)
       /\ \A oi \in 1..Len(groupOrbits) :
             {groupOrbits[oi].planets[pi].id : pi \in 1..Len(groupOrbits[oi].planets)}
                = {containers[i].id : i \in {j \in idx :
                                                containers[j].group = groupOrbits[oi].key}}
       /\ Cardinality({allIds[k] : k \in 1..Len(allIds)}) = Len(allIds)
       /\ Len(allIds) = Len(containers)

\* the second snapshot lists under another group an entity of the first, next
\* to an entity that stays: the entity's old body is gone from its ring and
\* it has a record in the other ring
EntityChangedGroup ==
    /\ refreshes = 2
    /\ Len(groupOrbits) = 2
    /\ \E o \in orphans : o.kind = "sprite" /\ HasPlanet(groupOrbits, o.id)


\* the particle graphics of body id on screen: those of its record and those
\* left in a layer without a record
ParticleGraphics(id) ==
    (IF HasPlanet(groupOrbits, id)
     THEN PlanetAt(groupOrbits, PlanetLoc(groupOrbits, id)).particles ELSE 0)
    + ParticleCount * Cardinality({o \in orphans : o.kind = "particles" /\ o.id = id})

\* every body's record holds particles exactly when its container's load in
\* the latest snapshot is above 50 or its state is restarting
ParticleRecordsFollowLoad ==
    \A i \in 1..Len(containers) :
        LET c == containers[i]
            planet == PlanetAt(groupOrbits, PlanetLoc(groupOrbits, c.id))
        IN (planet.particles > 0) <=>
              ((c.cpu # NoLoad /\ c.cpu > 50) \/ c.state = "restarting")

\* C19: a body has particles exactly when its container's load in the
\* latest snapshot is above 50 or its state is restarting, and a body whose
\* container does not meet the condition has no particle graphics left from
\* an earlier snapshot.
ParticlesFollowLoad ==
    /\ ParticleRecordsFollowLoad
    /\ \A i \in 1..Len(containers) :
          LET c == containers[i]
          IN ~((c.cpu # NoLoad /\ c.cpu > 50) \/ c.state = "restarting")
                => ParticleGraphics(c.id) = 0


\* C20: of two containers, the one with the higher memory percent has a
\* planet size that is not smaller than the other's.
SizeGrowsWithMemory ==
    (fnOut.done /\ fnIn.a > fnIn.b) => fnOut.a >= fnOut.b


------------------------------------------------------------------------------
(* Properties of the Minecraft adapter *)

\* C21: two status queries sent for the same container are at least one
\* cache TTL apart, also when calls of enrich for that container overlap.
OneQueryPerWindow ==
    \A i, j \in 1..Len(adapter.queries) :
        (i < j /\ adapter.queries[i].id = adapter.queries[j].id)
            => adapter.queries[j].at - adapter.queries[i].at >= CACHE_TTL_MS


------------------------------------------------------------------------------
(* Properties of the engine: identity, stale listeners, removal, layers *)

\* the record of body id and the key of the ring that holds it
PlanetOf(orbits, id) == PlanetAt(orbits, PlanetLoc(orbits, id))
RingKeyOf(orbits, id) == orbits[PlanetLoc(orbits, id)[1]].key

\* the ids listed by the new snapshot under the group whose ring holds their
\* body now
StayingIds ==
    {id \in Ids : /\ HasPlanet(groupOrbits, id)
                  /\ \E i \in 1..Len(containers') :
                        /\ containers'[i].id = id
                        /\ containers'[i].group = RingKeyOf(groupOrbits, id)}

\* C22: a refresh keeps the body of every id that the new snapshot lists
\* under the same group: the body stays in its ring with the angle it had and
\* the listeners it was created with, and no sprite of it is discarded,
\* however the list is reordered and whatever siblings come and go.
BodiesMatchedById ==
    [][(refreshes' = refreshes + 1) =>
          \A id \in StayingIds :
             /\ HasPlanet(groupOrbits', id)
             /\ RingKeyOf(groupOrbits', id) = RingKeyOf(groupOrbits, id)
             /\ PlanetOf(groupOrbits', id).angle = PlanetOf(groupOrbits, id).angle
             /\ PlanetOf(groupOrbits', id).hoverSel = PlanetOf(groupOrbits, id).hoverSel
             /\ PlanetOf(groupOrbits', id).listenerContainer
                   = PlanetOf(groupOrbits, id).listenerContainer
             /\ ~\E o \in orphans' \ orphans : o.kind = "sprite" /\ o.id = id]_vars

\* after the bodies have moved, the second snapshot lists c before a, and b in
\* their group too: the ring keeps a before c, each at the angle it had
ReorderedAfterTick ==
    /\ refreshes = 2
    /\ ticks = 1
    /\ Len(containers) = 3
    /\ containers[1].id = "c" /\ containers[3].id = "a"
    /\ Len(groupOrbits) = 1
    /\ AllPlanetIds(groupOrbits) = << "a", "c", "b" >>
    /\ PlanetOf(groupOrbits, "a").angle.rad > 0
    /\ PlanetOf(groupOrbits, "c").angle.rad > 0
    /\ PlanetOf(groupOrbits, "b").angle.rad = 0


\* the engine after a pointer-enter on the body at loc, whose listener calls
\* the handleHover of the render that created the body
AfterPointerOver(loc) ==
    LET planet == PlanetAt(groupOrbits, loc)
    IN Settle(handleHover(World, planet.id, planet.hoverSel), containers, viewport)

\* body A is pinned and focused and the body at loc is another one, created
\* before A was pinned
OtherThanPinned(loc) ==
    /\ Pinned(selection)
    /\ HasPlanet(groupOrbits, selection.id)
    /\ focusedPlanetId = selection.id
    /\ PlanetAt(groupOrbits, loc).id # selection.id
    /\ ~(Pinned(PlanetAt(groupOrbits, loc).hoverSel)
         /\ PlanetAt(groupOrbits, loc).hoverSel.id = selection.id)

\* C23: a pointer-enter on a body B created before another body A was pinned
\* clears the pin and makes B the hovered body: selection none, hover B, B
\* the only body in the focus layer, A in the base layer at its base size.
PointerEnterSupersedesPin ==
    \A loc \in PlanetLocs(groupOrbits) :
        OtherThanPinned(loc) =>
            LET w == AfterPointerOver(loc)
                b == PlanetAt(groupOrbits, loc).id
            IN /\ w.selection.kind = "none"
               /\ w.hover.planetId = b
               /\ w.focused = b
               /\ FocusLayerBodies(w.orbits) = {PlanetLoc(w.orbits, b)}
               /\ PlanetOf(w.orbits, selection.id).layer = "base"
               /\ PlanetOf(w.orbits, selection.id).scaleExp = 0


\* layer and scale of every body record
Placement(orbits) ==
    [loc \in PlanetLocs(orbits) |->
        [id |-> PlanetAt(orbits, loc).id, layer |-> PlanetAt(orbits, loc).layer,
         scaleExp |-> PlanetAt(orbits, loc).scaleExp]]

\* C24: while a group is selected, a pointer-enter on any body leaves hover,
\* selection, the focused body, the layers and the scales as they are.
PointerEnterIgnoredUnderGroup ==
    \A loc \in PlanetLocs(groupOrbits) :
        selection.kind = "group" =>
            LET w == AfterPointerOver(loc)
            IN /\ w.hover = hover
               /\ w.selection = selection
               /\ w.focused = focusedPlanetId
               /\ Placement(w.orbits) = Placement(groupOrbits)


\* C25: a timer that fires while the store's selection is a pinned body or a
\* group changes nothing of selection, hover, focus, layers and overlay; a
\* timer that fires under any other selection leaves no body focused: no
\* focused id, no hover, the body that was focused in the base layer at its
\* base size, the overlay hidden.
TimerRevalidates ==
    [][TimerFired =>
          IF Pinned(selection) \/ selection.kind = "group"
          THEN /\ selection' = selection
               /\ hover' = hover
               /\ focusedPlanetId' = focusedPlanetId
               /\ groupOrbits' = groupOrbits
               /\ overlayVisible' = overlayVisible
               /\ orphans' = orphans
          ELSE /\ focusedPlanetId' = NoId
               /\ hover' = HoverNone
               /\ selection'.kind = "none"
               /\ HasPlanet(groupOrbits, focusedPlanetId) =>
                     /\ PlanetOf(groupOrbits', focusedPlanetId).layer = "base"
                     /\ PlanetOf(groupOrbits', focusedPlanetId).scaleExp = 0
               /\ focusedPlanetId # NoId => ~overlayVisible']_vars

\* a timer set while a body was hovered has fired after a group was selected:
\* the body is still the focused one
TimerFiredUnderGroup ==
    /\ unfocusTimeoutRef
    /\ ~timerPending
    /\ selection.kind = "group"
    /\ focusedPlanetId # NoId
    /\ hover.planetId = focusedPlanetId


\* w differs from the engine's state in none of selection, hover, focused
\* body, unfocus timer and layer placement
LeavesEngineAlone(w) ==
    /\ w.selection = selection
    /\ w.hover = hover
    /\ w.focused = focusedPlanetId
    /\ w.timeoutRef = unfocusTimeoutRef
    /\ w.timerPending = timerPending
    /\ Placement(w.orbits) = Placement(groupOrbits)

\* a pointer-enter on a sprite whose id has no body record changes nothing
MissingPointerOver ==
    \A s \in Sprites :
        ~HasPlanet(groupOrbits, s.id) =>
            LeavesEngineAlone(Settle(handleHover(World, s.id, s.hoverSel),
                                     containers, viewport))

\* a pointer-down on a sprite whose id has no body record changes nothing
MissingPointerDown ==
    \A s \in Sprites :
        ~HasPlanet(groupOrbits, s.id) =>
            LeavesEngineAlone(Settle(handleClick(World, s.id, s.listenerContainer),
                                     containers, viewport))

\* a timer that fires while the focused id has no body record changes
\* nothing but its own pending state
MissingTimerFiring ==
    (timerPending /\ focusedPlanetId # NoId /\ ~HasPlanet(groupOrbits, focusedPlanetId)) =>
        LET w == Settle(UnfocusTimeout(World), containers, viewport)
        IN LeavesEngineAlone([w EXCEPT !.timerPending = timerPending])

\* C26: a pointer-enter, a pointer-down or a timer firing whose body id has
\* no record leaves selection, hover, the focused body, a pending unfocus
\* timer and the layers as they are.
MissingTargetIsNoOp ==
    /\ MissingPointerOver
    /\ MissingPointerDown
    /\ MissingTimerFiring


\* C27: no display object of a removed body (sprite, glow, rim glow,
\* particles) or of a removed ring (line, glow, label, hit region) is a child
\* of the base layer or the focus layer.
RemovalDetaches ==
    \A o \in orphans :
        ~(o.kind \in {"sprite", "particles", "ring"} /\ o.layer \in {"base", "focus"})


\* the body that is the current focus is in the focus layer at base size
\* times the focus multiplier, every other body in the base layer at base size
PlacementMatchesFocus(orbits, focused) ==
    \A loc \in PlanetLocs(orbits) :
        LET planet == PlanetAt(orbits, loc)
        IN IF planet.id = focused
           THEN planet.layer = "focus" /\ planet.scaleExp = 1
           ELSE planet.layer = "base" /\ planet.scaleExp = 0

\* C28: after every refresh the layer and the width of every body match the
\* engine's current focus.
RefreshPlacesByFocus ==
    [][(refreshes' = refreshes + 1) =>
          PlacementMatchesFocus(groupOrbits', focusedPlanetId')]_vars


\* C29: an animation tick leaves the opacity of every dimmed body as the
\* selection effect set it.
TickKeepsDimming ==
    [][(ticks' = ticks + 1) =>
          \A loc \in PlanetLocs(groupOrbits) :
              PlanetAt(groupOrbits, loc).alpha < 100 =>
                  PlanetAt(groupOrbits', loc).alpha = PlanetAt(groupOrbits, loc).alpha]_vars


\* the ids of the latest snapshot: its groups in the order of groupContainers,
\* the members of each group in their order in the group
SnapshotOrder(cs) ==
    LET groups == groupContainers(cs)
        RECURSIVE Flat(_)
        Flat(g) ==
            IF g > Len(groups) THEN << >>
            ELSE [i \in 1..Len(groups[g].containers) |-> groups[g].containers[i].id]
                 \o Flat(g + 1)
    IN Flat(1)

\* C30: the list of ids that the arrow keys walk through is the order of the
\* latest snapshot.
NavigationFollowsSnapshot ==
    AllPlanetIds(groupOrbits) = SnapshotOrder(containers)


------------------------------------------------------------------------------
(* Properties of the engine: group changes, overlay, timers, stored records *)

\* the ids that have a body now and are listed by the new snapshot
PersistingIds ==
    {id \in Ids : /\ HasPlanet(groupOrbits, id)
                  /\ \E i \in 1..Len(containers') : containers'[i].id = id}

\* C31: a refresh keeps the body of every id it lists again, under whatever
\* group: the body's sprite is not discarded, its angle is the one it had,
\* and a pin on it stays.
PersistingUpdatedInPlace ==
    [][(refreshes' = refreshes + 1) =>
          \A id \in PersistingIds :
             /\ HasPlanet(groupOrbits', id)
             /\ PlanetOf(groupOrbits', id).angle = PlanetOf(groupOrbits, id).angle
             /\ ~\E o \in orphans' \ orphans : o.kind = "sprite" /\ o.id = id
             /\ (Pinned(selection) /\ selection.id = id) =>
                   (Pinned(selection') /\ selection'.id = id)]_vars


\* C32: whenever the selection is not a body and nothing is hovered, the
\* focus overlay is hidden.
OverlayHiddenWithoutFocus ==
    (selection.kind # "planet" /\ hover = HoverNone) => ~overlayVisible


\* C33: once the pointer has left a hovered body and no pointer or key input
\* follows, the engine reaches a state with no hover, the overlay hidden and
\* no body focused, whatever snapshots and ticks come in between.
DebouncedUnfocusHappens ==
    timerPending ~> (hover = HoverNone /\ ~overlayVisible /\ focusedPlanetId = NoId)

\* the timer has fired after the bodies moved and a second snapshot came:
\* nothing is hovered or focused and the body is back in the base layer
UnfocusedAfterLeave ==
    /\ unfocusTimeoutRef
    /\ ~timerPending
    /\ ticks = 1
    /\ refreshes = 2
    /\ hover = HoverNone
    /\ ~overlayVisible
    /\ focusedPlanetId = NoId
    /\ PlanetLocs(groupOrbits) # {}
    /\ PlacementMatchesFocus(groupOrbits, NoId)

\* C34: every status query terminates.  While a call of enrich awaits its
\* query no more than the timeout has passed since the query was sent; a
\* settled promise holds a response or null and its socket is destroyed; a
\* call that is not in flight has returned data or null; and a pending
\* promise always settles.
QueryReleased ==
    /\ Len(adapter.calls) = 1 =>
          adapter.now - adapter.calls[1].sent <= QueryTimeoutMs
    /\ query.promise \notin {"none", "pending"} =>
          /\ query.promise \in {"null", "status", "other"}
          /\ query.destroyed
    /\ Len(adapter.calls) = 0 =>
          /\ query.promise = "none"
          /\ adapter.returned \in {"none", "cached", "null", "data"}

OneTimerPending ==
    /\ Cardinality(timers.pending) <= 1
    /\ timers.pending \subseteq {timers.ref}
    /\ timerPending <=> timers.pending # {}
    /\ unfocusTimeoutRef <=> timers.ref # 0

\* three pointer-leaves in a row: the third timer is the only one pending
BurstOfLeaves ==
    /\ timers.next = 4
    /\ timers.ref = 3
    /\ timers.pending = {3}
    /\ focusedPlanetId # NoId

\* C36: a group selection never dangles: whenever the selection is a group,
\* groupOrbitsRef holds a ring with that key, after every refresh and after
\* every pointer-down.
GroupSelectionHasRing ==
    selection.kind = "group" =>
        \E oi \in 1..Len(groupOrbits) : groupOrbits[oi].key = selection.key

\* C37: the record a pointer-down stores is current: in every state, a
\* pointer-down on a body of the scene stores the record the latest snapshot
\* has for its id, and a pointer-down on a ring of the scene stores the group
\* (members and dominant state) the latest snapshot has for its key.
PointerDownStoresCurrent ==
    /\ \A loc \in PlanetLocs(groupOrbits) :
          LET planet == PlanetAt(groupOrbits, loc)
              w == handleClick(World, planet.id, planet.listenerContainer)
          IN \A i \in 1..Len(containers) :
                containers[i].id = planet.id =>
                    w.selection.container = containers[i]
    /\ \A oi \in 1..Len(groupOrbits) :
          LET w == selectGroup(World, groupOrbits[oi].key,
                               groupOrbits[oi].listenerGroup)
              groups == groupContainers(containers)
          IN \A g \in 1..Len(groups) :
                groups[g].key = groupOrbits[oi].key =>
                    w.selection.group = groups[g]

\* the ring's line is at an opacity drawOrbitRing gives to exited groups
RingDimmed(orbit) ==
    orbit.lineAlpha \in {ExitedLineAlpha, ExitedSelectedLineAlpha}

\* C38: ring dimming follows the current dominant state: after every
\* refresh, a ring's line is at the reduced opacity if and only if the
\* dominant state of its group in that refresh is exited.
RingDimmingFollowsState ==
    [][(refreshes' = refreshes + 1) =>
          \A oi \in 1..Len(groupOrbits') :
              LET groups == groupContainers(containers')
              IN \A g \in 1..Len(groups) :
                    groups[g].key = groupOrbits'[oi].key =>
                        (RingDimmed(groupOrbits'[oi])
                            <=> groups[g].dominantState = "exited")]_vars

=============================================================================
